---------------------------- MODULE Spec2Model ----------------------------
(***************************************************************************)
(* Model of the diagram auto-layout engine of ai-canvas                    *)
(* (src/components/excalidrawTransform.ts): toExcalidrawElements with its  *)
(* nested computeLayeredLayout and measureTextBox, and clampElements.      *)
(*                                                                         *)
(* Lengths are fixed-point numbers in twentieths of a pixel: every         *)
(* quantity the code computes from whole-pixel hints is a multiple of 0.05 *)
(* (centres are halves, arrow midpoints quarters, character widths         *)
(* multiples of 0.2 and their halves multiples of 0.1), so the arithmetic  *)
(* of the code is exact in this unit.  Px(v) converts whole pixels.        *)
(***************************************************************************)
EXTENDS Integers, Sequences, FiniteSets, TLC

VARIABLES
  nodes,           \* argument nodes: AINode[]
  edges,           \* argument edges: AIEdge[]
  pc,              \* position inside toExcalidrawElements
  clock,           \* the process clock read by Date.now()
  now,             \* const now = Date.now()
  incomingCounts,  \* computeLayeredLayout: Map id -> remaining in-degree
  outgoing,        \* computeLayeredLayout: Map id -> successor list
  queue,           \* computeLayeredLayout: the processing queue
  current,         \* computeLayeredLayout: const id = queue.shift()
  level,           \* computeLayeredLayout: Map id -> layer (partial)
  layout,          \* const layout = computeLayeredLayout(nodes, edges)
  nodeMap,         \* Map id -> box used by the edge loop
  elements,        \* the primitive list under construction / returned
  idx,             \* loop index of the node loop and of the edge loop
  runs,            \* results of the invocations completed so far
  measure,         \* a stand-alone call of measureTextBox: arguments and result
  boards,          \* Convex table "boards"; a board's _id is its index
  board_docs,      \* Convex table "board_docs"; a document's _id is its index
  reply,           \* the last Convex function call: caller, arguments, outcome
  canvas,          \* the mounted ExcalidrawCanvas components and the calls served
  userRateState,   \* Map userId -> { windowStart, count } of the rate limiter
  admitted         \* per user, the times of the checkRateLimit calls that returned

vars == <<nodes, edges, pc, clock, now, incomingCounts, outgoing, queue, current,
          level, layout, nodeMap, elements, idx, runs, measure, boards, board_docs,
          reply, canvas, userRateState, admitted>>

layeringVars == <<incomingCounts, outgoing, queue, current, level>>

dbVars == <<boards, board_docs, reply, canvas, userRateState, admitted>>

(***************************************************************************)
(* Bounds of the model.                                                    *)
(***************************************************************************)
MaxNodes == 3

MaxEdges == 3

MaxQueue == 4

MaxGeomNodes == 3

MaxTextLen == 7

MaxTwiceEdges == 2

MaxClock == 2

MaxBoards == 1

MaxVersion == 3

MaxSaves == 3

MaxTicks == 2

MaxOthers == 2

(***************************************************************************)
(* Program constants.                                                      *)
(***************************************************************************)
MIN_SHAPE_WIDTH == 160

MIN_SHAPE_HEIGHT == 64

TEXT_FONT_SIZE == 22

LABEL_FONT_SIZE == 20

EDGE_LABEL_FONT_SIZE == 16

EDGE_LABEL_MAX_WIDTH == 280

MAX_TEXT_WIDTH == 360

TEXT_PADDING == 12

MIN_COORD == -5000

MAX_COORD == 5000

\* The caps of the input schema (DiagramSchema, clampDiagram).
MAX_W == 2000

MAX_H == 2000

MAX_DIAGRAM_NODES == 30

userRateWindowMs == 60000

userRateMax == 30

H_MARGIN == 80

V_MARGIN == 80

H_GAP == 160

V_GAP == 160

(***************************************************************************)
(* Numbers.                                                                *)
(***************************************************************************)
Px(v) == v * 20

Max(a, b) == IF a >= b THEN a ELSE b

Min(a, b) == IF a <= b THEN a ELSE b

Abs(a) == IF a >= 0 THEN a ELSE -a

\* Math.round: the nearest whole pixel, halves rounded towards +infinity.
Round(q) == ((q + 10) \div 20) * 20

\* q * SHAPE_SCALE with SHAPE_SCALE = 1.6 (exact: q is a whole pixel count).
TimesShapeScale(q) == (q * 16) \div 10

\* q / 2 (exact: q is an even number of twentieths wherever the code halves).
Half(q) == q \div 2

(***************************************************************************)
(* Strings.  Identifiers are TLA+ strings, so that the template literals   *)
(* of the code are string concatenations.  Array.prototype.sort() without  *)
(* a comparator orders strings by their UTF-16 code units.                 *)
(***************************************************************************)
Utf16 ==
  ("A" :> <<65>>) @@ ("B" :> <<66>>) @@ ("C" :> <<67>>) @@ ("D" :> <<68>>)
  @@ ("a" :> <<97>>) @@ ("Z" :> <<90>>)

RECURSIVE SeqLess(_, _)
SeqLess(s, t) ==
  IF s = <<>> THEN t # <<>>
  ELSE IF t = <<>> THEN FALSE
  ELSE IF Head(s) # Head(t) THEN Head(s) < Head(t)
  ELSE SeqLess(Tail(s), Tail(t))

StringLess(a, b) == SeqLess(Utf16[a], Utf16[b])

\* ids.sort() applied to the ids of the set S (the keys of a Map: distinct).
RECURSIVE SetToSeq(_)
SetToSeq(S) ==
  IF S = {} THEN <<>>
  ELSE LET e == CHOOSE e \in S : TRUE IN <<e>> \o SetToSeq(S \ {e})

\* Mutant of SortIds: descending order.
SortIdsDescending(S) == SortSeq(SetToSeq(S), LAMBDA a, b : StringLess(b, a))

SortIds(S) == SortSeq(SetToSeq(S), StringLess)

(***************************************************************************)
(* Optional text.  A text is a sequence of characters; Undefined is the    *)
(* value of an absent optional field.                                      *)
(***************************************************************************)
Undefined == <<"undefined">>

\* if (n.text): present and non-empty
\* Mutant of Truthy: an empty string counts as present.
TruthyWhenEmpty(t) == t # Undefined

Truthy(t) == t # Undefined /\ t # <<>>

\* n.text ?? ""
OrEmpty(t) == IF t = Undefined THEN <<>> ELSE t

RECURSIVE MaxOf(_)
MaxOf(s) == IF s = <<>> THEN 0 ELSE Max(Head(s), MaxOf(Tail(s)))


(***************************************************************************)
(* Inputs.  A node is {id, type, x, y, w, h, text?}, an edge is            *)
(* {from, to, label?}; hints are whole pixels.  Node identifiers are       *)
(* unique within one node list (spec.md, section 3).                       *)
(***************************************************************************)
AINode(id, type, w, h, text) ==
  [id |-> id, type |-> type, x |-> 0, y |-> 0, w |-> w, h |-> h, text |-> text]

AIEdge(from, to, label) == [from |-> from, to |-> to, label |-> label]

Chars(k) == [j \in 1..k |-> "a"]

ShortText == Chars(2)

\* Three words of nine letters: too long for one line of a label, of an edge
\* label and of a stand-alone text of the default width.
LongText == Chars(9) \o <<" ">> \o Chars(9) \o <<" ">> \o Chars(9)

NodePool ==
  <<AINode("A", "rectangle", 100, 50, ShortText),
    AINode("B", "diamond", 102, 40, Undefined),
    AINode("C", "text", 120, 40, LongText),
    AINode("D", "ellipse", 100, 50, <<>>)>>

EdgePool ==
  {AIEdge("A", "B", ShortText), AIEdge("B", "C", Undefined), AIEdge("C", "A", <<>>),
   AIEdge("A", "A", Undefined), AIEdge("A", "Z", ShortText)}

SeqsUpTo(S, n) == UNION {[1..k -> S] : k \in 0..n}

DistinctIds(s) == \A j, k \in 1..Len(s) : j # k => s[j].id # s[k].id

NodeLists ==
  {s \in SeqsUpTo({NodePool[k] : k \in 1..Min(MaxNodes, Len(NodePool))}, MaxNodes) :
     DistinctIds(s)}

EdgeLists == SeqsUpTo(EdgePool, MaxEdges)

EmptyMap == [id \in {} |-> 0]

NoMeasure == [text |-> <<>>, fontSize |-> 0, maxWidth |-> 0, called |-> FALSE,
              result |-> [width |-> 0, height |-> 0, lines |-> 0, lineHeight |-> 0]]

NoUser == "null"

NoValue == [kind |-> "none"]

NoReply == [op |-> "", user |-> NoUser, boardId |-> 0, expectedVersion |-> 0,
            error |-> "", value |-> NoValue]

\* No ExcalidrawCanvas is mounted.
NoCanvas == [clients |-> <<>>, executed |-> <<>>]

\* Both tables empty, no Convex function called yet, no component mounted.
Users == {"u1", "u2"}

\* new Map(): userRateState.get(userId) is undefined for every user; a stored
\* state has a count of at least 1, and a count of 0 stands for undefined.
NoRateState == [u \in Users |-> [windowStart |-> 0, count |-> 0]]

NoDb ==
  /\ boards = <<>>
  /\ board_docs = <<>>
  /\ reply = NoReply
  /\ canvas = NoCanvas
  /\ userRateState = NoRateState
  /\ admitted = [u \in Users |-> <<>>]

\* The state at the call of toExcalidrawElements(ns, es).
Called(ns, es) ==
  /\ nodes = ns
  /\ edges = es
  /\ pc = "start"
  /\ now = 0
  /\ incomingCounts = EmptyMap
  /\ outgoing = EmptyMap
  /\ queue = <<>>
  /\ current = ""
  /\ level = EmptyMap
  /\ layout = EmptyMap
  /\ nodeMap = EmptyMap
  /\ elements = <<>>
  /\ idx = 0

Init ==
  /\ \E ns \in NodeLists, es \in EdgeLists : Called(ns, es)
  /\ clock = 1
  /\ runs = <<>>
  /\ measure = NoMeasure
  /\ NoDb

(***************************************************************************)
(* Inputs that vary the geometry: every node takes one of four profiles    *)
(* (the minimum box, an odd width, the largest hints the input schema      *)
(* admits, a text-kind node), under a few acyclic edge lists.              *)
(***************************************************************************)
GeomIds == {NodePool[k].id : k \in 1..Min(MaxGeomNodes, Len(NodePool))}

GeomProfiles ==
  {[type |-> "rectangle", w |-> 100, h |-> 50, text |-> ShortText],
   [type |-> "ellipse", w |-> 102, h |-> 30, text |-> LongText],
   [type |-> "rectangle", w |-> 2000, h |-> 2000, text |-> Undefined],
   [type |-> "text", w |-> 2000, h |-> 40, text |-> LongText]}

GeomNodes == {AINode(id, p.type, p.w, p.h, p.text) : id \in GeomIds, p \in GeomProfiles}

GeomNodeLists == {s \in SeqsUpTo(GeomNodes, MaxGeomNodes) : DistinctIds(s)}

GeomEdgeLists ==
  {<<>>,
   <<AIEdge("A", "B", Undefined)>>,
   <<AIEdge("A", "B", LongText), AIEdge("B", "C", ShortText)>>,
   <<AIEdge("A", "B", ShortText), AIEdge("A", "B", ShortText)>>,
   <<AIEdge("A", "C", Undefined), AIEdge("A", "B", Undefined), AIEdge("C", "B", <<>>)>>}

InitGeom ==
  /\ \E ns \in GeomNodeLists, es \in GeomEdgeLists : Called(ns, es)
  /\ clock = 1
  /\ runs = <<>>
  /\ measure = NoMeasure
  /\ NoDb

(***************************************************************************)
(* Inputs of the specification that calls toExcalidrawElements twice.      *)
(***************************************************************************)
InitTwice ==
  /\ \E ns \in NodeLists, es \in SeqsUpTo(EdgePool, MaxTwiceEdges) : Called(ns, es)
  /\ clock = 1
  /\ runs = <<>>
  /\ measure = NoMeasure
  /\ NoDb

(***************************************************************************)
(* Arguments of a stand-alone call of measureTextBox: every text of        *)
(* letters and blanks up to MaxTextLen, the three font sizes of the code,  *)
(* the widths the code passes (the label floor 32, a 160 px shape's 144,   *)
(* the edge label's 280, the text maximum 360, the 512 of a text node 320  *)
(* wide) and a narrow 64.                                                  *)
(***************************************************************************)
Texts == SeqsUpTo({"a", " "}, MaxTextLen)

FontSizes == {TEXT_FONT_SIZE, LABEL_FONT_SIZE, EDGE_LABEL_FONT_SIZE}

MaxWidths ==
  {Px(32), Px(64), Px(144), Px(EDGE_LABEL_MAX_WIDTH), Px(MAX_TEXT_WIDTH), Px(512)}

InitMeasure ==
  /\ nodes = <<>>
  /\ edges = <<>>
  /\ pc = "idle"
  /\ now = 0
  /\ incomingCounts = EmptyMap
  /\ outgoing = EmptyMap
  /\ queue = <<>>
  /\ current = ""
  /\ level = EmptyMap
  /\ layout = EmptyMap
  /\ nodeMap = EmptyMap
  /\ elements = <<>>
  /\ idx = 0
  /\ clock = 1
  /\ runs = <<>>
  /\ \E t \in Texts, f \in FontSizes, m \in MaxWidths :
       measure = [NoMeasure EXCEPT !.text = t, !.fontSize = f, !.maxWidth = m]
  /\ NoDb

(***************************************************************************)
(* Inputs of the specification that calls toExcalidrawElements on a list   *)
(* and then on a reordering of it: five rectangles under acyclic edge      *)
(* lists whose endpoints are all present (a node with two ways of          *)
(* different length to a common successor; a chain with a shortcut).       *)
(***************************************************************************)
PermNodes ==
  <<AINode("A", "rectangle", 100, 50, Undefined),
    AINode("B", "rectangle", 100, 50, Undefined),
    AINode("C", "rectangle", 100, 50, Undefined),
    AINode("D", "rectangle", 100, 50, Undefined),
    AINode("Z", "rectangle", 100, 50, Undefined)>>

PermEdgeLists ==
  {<<AIEdge("A", "B", Undefined), AIEdge("A", "C", Undefined),
     AIEdge("B", "C", Undefined), AIEdge("B", "D", Undefined),
     AIEdge("C", "Z", Undefined), AIEdge("D", "Z", Undefined)>>,
   <<AIEdge("A", "B", Undefined), AIEdge("B", "C", Undefined),
     AIEdge("C", "D", Undefined), AIEdge("A", "Z", Undefined)>>}

InitPerm ==
  /\ \E es \in PermEdgeLists : Called(PermNodes, es)
  /\ clock = 1
  /\ runs = <<>>
  /\ measure = NoMeasure
  /\ NoDb

(***************************************************************************)
(* Inputs that fill a row: four nodes, each at the largest size the input  *)
(* schema admits or at a small one (of odd scaled height, 52 -> 83, or     *)
(* with an empty text), in one, two or three layers.                       *)
(***************************************************************************)
WideProfiles ==
  {[type |-> "rectangle", w |-> MAX_W, h |-> MAX_H, text |-> Undefined],
   [type |-> "text", w |-> MAX_W, h |-> 40, text |-> ShortText],
   [type |-> "ellipse", w |-> 100, h |-> 52, text |-> ShortText],
   [type |-> "diamond", w |-> 100, h |-> 50, text |-> <<>>]}

WideNodeLists ==
  {<<AINode("A", a.type, a.w, a.h, a.text), AINode("B", b.type, b.w, b.h, b.text),
     AINode("C", c.type, c.w, c.h, c.text), AINode("D", d.type, d.w, d.h, d.text)>> :
     a \in WideProfiles, b \in WideProfiles, c \in WideProfiles, d \in WideProfiles}

WideEdgeLists ==
  {<<>>,
   <<AIEdge("A", "B", Undefined)>>,
   <<AIEdge("A", "B", Undefined), AIEdge("B", "C", Undefined)>>}

InitWide ==
  /\ \E ns \in WideNodeLists, es \in WideEdgeLists : Called(ns, es)
  /\ clock = 1
  /\ runs = <<>>
  /\ measure = NoMeasure
  /\ NoDb

(***************************************************************************)
(* Inputs of the specification that calls toExcalidrawElements on an edge  *)
(* list with edges to or from the missing node Z, and then on the list     *)
(* without them.                                                           *)
(***************************************************************************)
DanglingEdgeLists ==
  {<<AIEdge("A", "B", Undefined), AIEdge("B", "C", Undefined),
     AIEdge("Z", "B", ShortText)>>,
   <<AIEdge("A", "Z", ShortText), AIEdge("A", "B", Undefined)>>,
   <<AIEdge("Z", "A", Undefined), AIEdge("B", "A", Undefined)>>,
   <<AIEdge("Z", "Z", Undefined)>>}

InitDangling ==
  /\ \E ns \in NodeLists, es \in DanglingEdgeLists : Called(ns, es)
  /\ clock = 1
  /\ runs = <<>>
  /\ measure = NoMeasure
  /\ NoDb

\* A fresh deployment: both tables empty, no layout run in progress.
InitDb ==
  /\ nodes = <<>>
  /\ edges = <<>>
  /\ pc = "idle"
  /\ now = 0
  /\ incomingCounts = EmptyMap
  /\ outgoing = EmptyMap
  /\ queue = <<>>
  /\ current = ""
  /\ level = EmptyMap
  /\ layout = EmptyMap
  /\ nodeMap = EmptyMap
  /\ elements = <<>>
  /\ idx = 0
  /\ clock = 1
  /\ runs = <<>>
  /\ measure = NoMeasure
  /\ NoDb

\* useRef(scene?.version ?? 0) and useState("idle") at the first render,
\* when the query has not answered yet.  changes counts the onChange calls;
\* saved is the scene of the request whose completion last showed "Saved".
Mounted ==
  [lastServerVersion |-> 0, savedState |-> "idle", inflight |-> <<>>, timers |-> 0,
   changes |-> 0, saved |-> ""]

\* The runtime has just loaded the module: the limiter's map is empty.  The
\* admitted calls are recorded for one user, any of them.
InitRate ==
  /\ nodes = <<>>
  /\ edges = <<>>
  /\ pc = "idle"
  /\ now = 0
  /\ incomingCounts = EmptyMap
  /\ outgoing = EmptyMap
  /\ queue = <<>>
  /\ current = ""
  /\ level = EmptyMap
  /\ layout = EmptyMap
  /\ nodeMap = EmptyMap
  /\ elements = <<>>
  /\ idx = 0
  /\ clock = 0
  /\ runs = <<>>
  /\ measure = NoMeasure
  /\ boards = <<>>
  /\ board_docs = <<>>
  /\ reply = NoReply
  /\ canvas = NoCanvas
  /\ userRateState = NoRateState
  /\ \E observed \in Users : admitted = [u \in {observed} |-> <<>>]

\* A board of user u1 as createBoard leaves it, opened in two browser tabs.
InitCanvas ==
  /\ nodes = <<>>
  /\ edges = <<>>
  /\ pc = "idle"
  /\ now = 0
  /\ incomingCounts = EmptyMap
  /\ outgoing = EmptyMap
  /\ queue = <<>>
  /\ current = ""
  /\ level = EmptyMap
  /\ layout = EmptyMap
  /\ nodeMap = EmptyMap
  /\ elements = <<>>
  /\ idx = 0
  /\ clock = 1
  /\ runs = <<>>
  /\ measure = NoMeasure
  /\ boards = <<[title |-> "title", ownerId |-> "u1", createdAt |-> 1, updatedAt |-> 1]>>
  /\ board_docs = <<[boardId |-> 1, data |-> "empty", version |-> 1, updatedBy |-> "u1",
                     updatedAt |-> 1]>>
  /\ reply = [op |-> "createBoard", user |-> "u1", boardId |-> 0, expectedVersion |-> 0,
              error |-> "", value |-> [kind |-> "id", id |-> 1]]
  /\ canvas = [clients |-> <<Mounted, Mounted>>, executed |-> <<>>]
  /\ userRateState = NoRateState
  /\ admitted = [u \in Users |-> <<>>]

(***************************************************************************)
(* computeLayeredLayout, lines 69-85: in-degrees, adjacency, queue seeds.  *)
(***************************************************************************)
NodeIds(ns) == {ns[k].id : k \in 1..Len(ns)}

\* Mutant of BothEndpointsPresent: only the target is looked up.
TargetPresent(ids, e) == e.to \in ids

\* if (!nodeById.has(e.from) || !nodeById.has(e.to)) continue;
BothEndpointsPresent(ids, e) == e.from \in ids /\ e.to \in ids

KeptEdges(ns, es) == SelectSeq(es, LAMBDA e : BothEndpointsPresent(NodeIds(ns), e))

RECURSIVE Targets(_)
Targets(es) == IF es = <<>> THEN <<>> ELSE <<Head(es).to>> \o Targets(Tail(es))

BuildIncoming(ns, es) ==
  [id \in NodeIds(ns) |->
     Len(SelectSeq(KeptEdges(ns, es), LAMBDA e : e.to = id))]

BuildOutgoing(ns, es) ==
  [id \in NodeIds(ns) |->
     Targets(SelectSeq(KeptEdges(ns, es), LAMBDA e : e.from = id))]

RECURSIVE Ids(_)
Ids(ns) == IF ns = <<>> THEN <<>> ELSE <<Head(ns).id>> \o Ids(Tail(ns))

SeedQueue(ns, inc) ==
  LET zero == SelectSeq(Ids(ns), LAMBDA id : inc[id] = 0)
  IN  IF zero = <<>> /\ ns # <<>> THEN <<ns[1].id>> ELSE zero

Start ==
  /\ pc = "start"
  /\ now' = clock
  /\ incomingCounts' = BuildIncoming(nodes, edges)
  /\ outgoing' = BuildOutgoing(nodes, edges)
  /\ queue' = SeedQueue(nodes, BuildIncoming(nodes, edges))
  /\ level' = EmptyMap
  /\ pc' = "layering"
  /\ UNCHANGED <<nodes, edges, clock, current, layout, nodeMap, elements, idx, runs,
                 measure, dbVars>>

(***************************************************************************)
(* computeLayeredLayout, lines 88-98: one iteration of the while loop, in  *)
(* two steps: the dequeue (line 89) and the relaxation of the successors   *)
(* (lines 90-97).                                                          *)
(***************************************************************************)
Has(map, id) == id \in DOMAIN map

Set(map, id, v) == [k \in DOMAIN map \cup {id} |-> IF k = id THEN v ELSE map[k]]

\* if (!level.has(nxt)) level.set(nxt, currentLevel + 1);
ProposeLevel(lvl, nxt, currentLevel) ==
  IF Has(lvl, nxt) THEN lvl ELSE Set(lvl, nxt, currentLevel + 1)

\* Math.max(0, (incomingCounts.get(nxt) ?? 1) - 1)
Remaining(inc, nxt) == Max(0, (IF Has(inc, nxt) THEN inc[nxt] ELSE 1) - 1)

\* The for loop over outgoing.get(id), lines 91-96.
RECURSIVE RelaxAll(_, _, _)
RelaxAll(succs, currentLevel, st) ==
  IF succs = <<>> THEN st
  ELSE LET nxt == Head(succs)
           remaining == Remaining(st.inc, nxt)
       IN  RelaxAll(Tail(succs), currentLevel,
                    [lvl |-> ProposeLevel(st.lvl, nxt, currentLevel),
                     inc |-> Set(st.inc, nxt, remaining),
                     q   |-> IF remaining = 0 THEN Append(st.q, nxt) ELSE st.q])

\* while (queue.length) { const id = queue.shift()!;
Shift ==
  /\ pc = "layering"
  /\ queue # <<>>
  /\ current' = Head(queue)
  /\ queue' = Tail(queue)
  /\ pc' = "relax"
  /\ UNCHANGED <<nodes, edges, clock, now, incomingCounts, outgoing, level, layout,
                 nodeMap, elements, idx, runs, measure, dbVars>>

\* Lines 90-97, the rest of the iteration.  A queue longer than MaxQueue is
\* beyond the model: the loop is then in a run that never ends.
Relax ==
  /\ pc = "relax"
  /\ LET id == current
         currentLevel == IF Has(level, id) THEN level[id] ELSE 0
         succs == IF Has(outgoing, id) THEN outgoing[id] ELSE <<>>
         st == RelaxAll(succs, currentLevel,
                        [lvl |-> level, inc |-> incomingCounts, q |-> queue])
     IN  /\ Len(st.q) <= MaxQueue
         /\ queue' = st.q
         /\ incomingCounts' = st.inc
         /\ level' = IF Has(st.lvl, id) THEN st.lvl ELSE Set(st.lvl, id, currentLevel)
  /\ current' = ""
  /\ pc' = "layering"
  /\ UNCHANGED <<nodes, edges, clock, now, outgoing, layout, nodeMap, elements, idx,
                 runs, measure, dbVars>>

(***************************************************************************)
(* computeLayeredLayout, lines 99-163: default layers, groups, sizes and   *)
(* the row-by-row placement.                                               *)
(***************************************************************************)
\* for (const n of inputNodes) if (!level.has(n.id)) level.set(n.id, 0);
FinalLevel(ns, lvl) ==
  [id \in NodeIds(ns) \cup DOMAIN lvl |-> IF Has(lvl, id) THEN lvl[id] ELSE 0]

\* groups.get(l) ?? [], after ids.sort()
Group(lv, l) == SortIds({id \in DOMAIN lv : lv[id] = l})

\* levels.length ? Math.max(...levels) : 0
MaxLevel(lv) ==
  IF DOMAIN lv = {} THEN 0
  ELSE CHOOSE m \in {lv[id] : id \in DOMAIN lv} : \A id \in DOMAIN lv : lv[id] <= m

\* new Map(inputNodes.map(...)): the last node of an id is the one kept.
NodeById(ns, id) ==
  ns[CHOOSE k \in 1..Len(ns) :
       ns[k].id = id /\ \A j \in (k + 1)..Len(ns) : ns[j].id # id]

ScaledSize(n) ==
  [w |-> Max(Px(MIN_SHAPE_WIDTH), Round(TimesShapeScale(Px(n.w)))),
   h |-> Max(Px(MIN_SHAPE_HEIGHT), Round(TimesShapeScale(Px(n.h))))]

RECURSIVE RowWidth(_, _)
RowWidth(ns, ids) ==
  IF ids = <<>> THEN 0
  ELSE ScaledSize(NodeById(ns, Head(ids))).w
       + (IF Len(ids) > 1 THEN Px(H_GAP) ELSE 0) + RowWidth(ns, Tail(ids))

\* Mutant of RowHeight: the height of the row's first node, not the maximum.
RowHeightOfFirst(ns, ids) ==
  IF ids = <<>> THEN 0 ELSE ScaledSize(NodeById(ns, Head(ids))).h

RECURSIVE RowHeight(_, _)
RowHeight(ns, ids) ==
  IF ids = <<>> THEN 0
  ELSE Max(ScaledSize(NodeById(ns, Head(ids))).h, RowHeight(ns, Tail(ids)))

MaxRowWidth(ns, lv) ==
  MaxOf([l \in 1..(MaxLevel(lv) + 1) |-> RowWidth(ns, Group(lv, l - 1))])

\* yCursor at the start of row l: V_MARGIN plus the rows above and their gaps.
RECURSIVE YCursor(_, _, _)
YCursor(ns, lv, l) ==
  IF l = 0 THEN Px(V_MARGIN)
  ELSE YCursor(ns, lv, l - 1) + RowHeight(ns, Group(lv, l - 1)) + Px(V_GAP)

\* Mutant of AdvanceX: the cursor advances by the gap only.
AdvanceXGapOnly(xCursor, s) == xCursor + Px(H_GAP)

\* xCursor += s.w + H_GAP
AdvanceX(xCursor, s) == xCursor + s.w + Px(H_GAP)

\* xCursor before the k-th node of the row
RECURSIVE XCursor(_, _, _, _)
XCursor(ns, lv, ids, k) ==
  IF k = 1
  THEN Px(H_MARGIN) + Half(MaxRowWidth(ns, lv) - RowWidth(ns, ids))
  ELSE AdvanceX(XCursor(ns, lv, ids, k - 1), ScaledSize(NodeById(ns, ids[k - 1])))

IndexOf(ids, id) == CHOOSE k \in 1..Len(ids) : ids[k] = id

\* pos.set(id, {x, y, w, h})
Position(ns, lv, id) ==
  LET l == lv[id]
      ids == Group(lv, l)
      s == ScaledSize(NodeById(ns, id))
  IN  [x |-> Round(XCursor(ns, lv, ids, IndexOf(ids, id))),
       y |-> Round(YCursor(ns, lv, l) + Half(RowHeight(ns, ids) - s.h)),
       w |-> s.w,
       h |-> s.h]

ComputeLayeredLayout(ns, lvl) ==
  LET lv == FinalLevel(ns, lvl)
  IN  [id \in DOMAIN lv |-> Position(ns, lv, id)]

\* Where control goes when a loop has no (more) iterations.
AfterEdges == "return"

AfterNodes == IF edges = <<>> THEN AfterEdges ELSE "edges"

AfterLayout == IF nodes = <<>> THEN AfterNodes ELSE "nodes"

\* The while loop has ended; lines 99-163 and line 189.
FinishLayout ==
  /\ pc = "layering"
  /\ queue = <<>>
  /\ level' = FinalLevel(nodes, level)
  /\ layout' = ComputeLayeredLayout(nodes, level)
  /\ pc' = AfterLayout
  /\ idx' = 1
  /\ UNCHANGED <<nodes, edges, clock, now, incomingCounts, outgoing, queue, current,
                 nodeMap, elements, runs, measure, dbVars>>

(***************************************************************************)
(* measureTextBox, lines 166-187.                                          *)
(***************************************************************************)
\* text.split(/\s+/): the pieces between maximal runs of white space; the
\* empty string yields one empty word, leading or trailing white space an
\* empty first or last word.
RECURSIVE SplitFrom(_, _, _)
SplitFrom(t, cur, afterSpace) ==
  IF t = <<>> THEN <<cur>>
  ELSE IF Head(t) = " "
       THEN IF afterSpace THEN SplitFrom(Tail(t), cur, TRUE)
            ELSE <<cur>> \o SplitFrom(Tail(t), <<>>, TRUE)
       ELSE SplitFrom(Tail(t), Append(cur, Head(t)), FALSE)

Split(t) == SplitFrom(t, <<>>, FALSE)

\* fontSize * 0.6
CharWidth(fontSize) == fontSize * 12

\* (word.length + 1) * charWidth
WordWidth(word, fontSize) == (Len(word) + 1) * CharWidth(fontSize)

\* if (lineWidth + w > maxWidth - TEXT_PADDING * 2)
Overflows(lineWidth, w, maxWidth) == lineWidth + w > maxWidth - Px(TEXT_PADDING) * 2

\* The for loop over the words, lines 171-179.
RECURSIVE Wrap(_, _, _, _)
Wrap(words, fontSize, maxWidth, st) ==
  IF words = <<>> THEN st
  ELSE LET w == WordWidth(Head(words), fontSize)
       IN  Wrap(Tail(words), fontSize, maxWidth,
                IF Overflows(st.lineWidth, w, maxWidth)
                THEN [lineWidth |-> w, lines |-> st.lines + 1]
                ELSE [lineWidth |-> st.lineWidth + w, lines |-> st.lines])

\* Math.round(fontSize * 1.2)
LineHeight(fontSize) == Round(fontSize * 24)

\* Mutant of BoxWidth: the outer Math.min(..., maxWidth) is missing.
BoxWidthUncapped(lineWidth, maxWidth) ==
  Max(lineWidth + Px(TEXT_PADDING) * 2, Min(Px(MAX_TEXT_WIDTH), maxWidth))

\* Math.min(Math.max(lineWidth + TEXT_PADDING * 2, Math.min(MAX_TEXT_WIDTH, maxWidth)), maxWidth)
BoxWidth(lineWidth, maxWidth) ==
  Min(Max(lineWidth + Px(TEXT_PADDING) * 2, Min(Px(MAX_TEXT_WIDTH), maxWidth)), maxWidth)

\* lines * lineHeight + TEXT_PADDING
BoxHeight(lines, fontSize) == lines * LineHeight(fontSize) + Px(TEXT_PADDING)

MeasureTextBox(text, fontSize, maxWidth) ==
  LET st == Wrap(Split(text), fontSize, maxWidth, [lineWidth |-> 0, lines |-> 1])
  IN  [width |-> BoxWidth(st.lineWidth, maxWidth),
       height |-> BoxHeight(st.lines, fontSize),
       lines |-> st.lines,
       lineHeight |-> LineHeight(fontSize)]

(***************************************************************************)
(* Primitives.  Of a CanvasElement the model keeps the fields that vary;   *)
(* the styling fields are the same constants in every primitive.  A field  *)
(* a primitive does not have is Undefined.                                 *)
(***************************************************************************)
\* Mutant of Element: the seed is drawn from a counter of the calls made.
ElementCallCounter(type, id, x, y, width, height, nonce, text, fontSize, points) ==
  [type |-> type, id |-> id, x |-> x, y |-> y, width |-> width, height |-> height,
   seed |-> now + Len(runs), versionNonce |-> now + nonce, updated |-> now,
   text |-> text, fontSize |-> fontSize, points |-> points]

Element(type, id, x, y, width, height, nonce, text, fontSize, points) ==
  [type |-> type, id |-> id, x |-> x, y |-> y, width |-> width, height |-> height,
   seed |-> now, versionNonce |-> now + nonce, updated |-> now,
   text |-> text, fontSize |-> fontSize, points |-> points]

\* centerOf, lines 45-47
CenterOf(box) == [cx |-> box.x + Half(box.w), cy |-> box.y + Half(box.h)]

\* Mutant of Clamp: the upper bound is missing.
ClampLowerOnly(v) == Max(Px(MIN_COORD), v)

\* Math.min(MAX_COORD, Math.max(MIN_COORD, v))
Clamp(v) == Min(Px(MAX_COORD), Max(Px(MIN_COORD), v))

\* Mutant of ClampElements: width and height are clamped as well.
ClampElementsAndSize(els) ==
  [k \in 1..Len(els) |->
     [els[k] EXCEPT !.x = Clamp(els[k].x), !.y = Clamp(els[k].y),
                    !.width = Clamp(els[k].width), !.height = Clamp(els[k].height)]]

\* clampElements, lines 49-57
ClampElements(els) ==
  [k \in 1..Len(els) |-> [els[k] EXCEPT !.x = Clamp(els[k].x), !.y = Clamp(els[k].y)]]

(***************************************************************************)
(* toExcalidrawElements, lines 191-314: one iteration of the node loop.    *)
(***************************************************************************)
\* lp?.x ?? n.x and its three siblings
Box(n) ==
  IF Has(layout, n.id) THEN layout[n.id]
  ELSE [x |-> Px(n.x), y |-> Px(n.y), w |-> Px(n.w), h |-> Px(n.h)]

\* Line 200: the maxWidth handed to measureTextBox for a text-kind node.
TextMaxWidth(box) ==
  Max(Max(Px(MIN_SHAPE_WIDTH), Round(TimesShapeScale(box.w))), Px(MAX_TEXT_WIDTH))

\* Lines 199-237: the stand-alone text primitive of a text-kind node.
TextElement(n, box) ==
  LET maxWidth == TextMaxWidth(box)
      metrics == MeasureTextBox(OrEmpty(n.text), TEXT_FONT_SIZE, maxWidth)
  IN  Element("text", n.id, box.x, box.y,
              Max(metrics.width, Px(MIN_SHAPE_WIDTH)),
              Max(metrics.height, Px(TEXT_FONT_SIZE + 12)),
              1, OrEmpty(n.text), TEXT_FONT_SIZE, Undefined)

\* Lines 241-267: the shape primitive.
ShapeElement(n, box) ==
  Element(n.type, n.id, box.x, box.y,
          Max(Px(MIN_SHAPE_WIDTH), Round(TimesShapeScale(box.w))),
          Max(Px(MIN_SHAPE_HEIGHT), Round(TimesShapeScale(box.h))),
          1, Undefined, Undefined, Undefined)

\* Lines 271-312: the label inside a shape.
ShapeLabel(n, box, shape) ==
  LET usableWidth == Max(Px(32), shape.width - Px(16))
      metrics == MeasureTextBox(n.text, LABEL_FONT_SIZE, usableWidth)
  IN  Element("text", n.id \o "-label",
              Round(box.x + Half(shape.width - metrics.width)),
              Round(box.y + Half(shape.height - metrics.height)),
              Round(metrics.width), Round(metrics.height),
              2, n.text, LABEL_FONT_SIZE, Undefined)

\* Mutant of NodeElements: the label is pushed before its shape.
NodeElementsLabelFirst(n, box) ==
  IF n.type = "text" THEN <<TextElement(n, box)>>
  ELSE IF Truthy(n.text)
       THEN <<ShapeLabel(n, box, ShapeElement(n, box)), ShapeElement(n, box)>>
       ELSE <<ShapeElement(n, box)>>

\* What one iteration of the node loop pushes.
NodeElements(n, box) ==
  IF n.type = "text" THEN <<TextElement(n, box)>>
  ELSE IF Truthy(n.text)
       THEN <<ShapeElement(n, box), ShapeLabel(n, box, ShapeElement(n, box))>>
       ELSE <<ShapeElement(n, box)>>

EmitNode ==
  /\ pc = "nodes"
  /\ LET n == nodes[idx]
     IN  /\ nodeMap' = Set(nodeMap, n.id, Box(n))
         /\ elements' = elements \o NodeElements(n, Box(n))
  /\ IF idx < Len(nodes) THEN idx' = idx + 1 /\ pc' = pc
     ELSE idx' = 1 /\ pc' = AfterNodes
  /\ UNCHANGED <<nodes, edges, clock, now, layeringVars, layout, runs, measure, dbVars>>

(***************************************************************************)
(* toExcalidrawElements, lines 316-400: one iteration of the edge loop.    *)
(***************************************************************************)
\* Mutant of Resolved: an edge from a node to itself is skipped too.
ResolvedNoSelfLoop(map, e) == Has(map, e.from) /\ Has(map, e.to) /\ e.from # e.to

\* if (!from || !to) continue;
Resolved(map, e) == Has(map, e.from) /\ Has(map, e.to)

\* Lines 323-357: the arrow.
ArrowElement(e, c1, c2) ==
  Element("arrow", e.from \o "->" \o e.to,
          Min(c1.cx, c2.cx), Min(c1.cy, c2.cy),
          Abs(c2.cx - c1.cx), Abs(c2.cy - c1.cy),
          3, Undefined, Undefined, <<<<0, 0>>, <<c2.cx - c1.cx, c2.cy - c1.cy>>>>)

\* Lines 360-398: the label of an edge.
EdgeLabel(e, c1, c2) ==
  LET midX == Half(c1.cx + c2.cx)
      midY == Half(c1.cy + c2.cy)
      metrics == MeasureTextBox(e.label, EDGE_LABEL_FONT_SIZE, Px(EDGE_LABEL_MAX_WIDTH))
  IN  Element("text", e.from \o "->" \o e.to \o "-label",
              Round(midX - Half(metrics.width)), Round(midY - Half(metrics.height)),
              Round(metrics.width), Round(metrics.height),
              4, e.label, EDGE_LABEL_FONT_SIZE, Undefined)

\* Mutant of EdgeElements: no guard, a missing endpoint counts as an empty box.
EdgeElementsNoGuard(map, e) ==
  LET zero == [x |-> 0, y |-> 0, w |-> 0, h |-> 0]
      c1 == CenterOf(IF Has(map, e.from) THEN map[e.from] ELSE zero)
      c2 == CenterOf(IF Has(map, e.to) THEN map[e.to] ELSE zero)
  IN  IF Truthy(e.label)
      THEN <<ArrowElement(e, c1, c2), EdgeLabel(e, c1, c2)>>
      ELSE <<ArrowElement(e, c1, c2)>>

\* What one iteration of the edge loop pushes.
EdgeElements(map, e) ==
  IF ~Resolved(map, e) THEN <<>>
  ELSE LET c1 == CenterOf(map[e.from])
           c2 == CenterOf(map[e.to])
       IN  IF Truthy(e.label)
           THEN <<ArrowElement(e, c1, c2), EdgeLabel(e, c1, c2)>>
           ELSE <<ArrowElement(e, c1, c2)>>

EmitEdge ==
  /\ pc = "edges"
  /\ elements' = elements \o EdgeElements(nodeMap, edges[idx])
  /\ IF idx < Len(edges) THEN idx' = idx + 1 /\ pc' = pc
     ELSE idx' = 0 /\ pc' = AfterEdges
  /\ UNCHANGED <<nodes, edges, clock, now, layeringVars, layout, nodeMap, runs, measure, dbVars>>

(***************************************************************************)
(* toExcalidrawElements, line 402: return clampElements(elements).         *)
(***************************************************************************)
Result(els) ==
  [nodes |-> nodes, edges |-> edges, now |-> now, elements |-> els, level |-> level,
   layout |-> layout]

Return ==
  /\ pc = "return"
  /\ elements' = ClampElements(elements)
  /\ runs' = Append(runs, Result(ClampElements(elements)))
  /\ pc' = "done"
  /\ idx' = 0
  /\ UNCHANGED <<nodes, edges, clock, now, layeringVars, layout, nodeMap, measure, dbVars>>

(***************************************************************************)
(* The environment of the two-call specification: the process clock        *)
(* advances between calls (the function is synchronous and reads the clock *)
(* once, at its start), and the caller calls again with the same arguments.*)
(***************************************************************************)
Tick ==
  /\ pc = "done"
  /\ Len(runs) = 1
  /\ clock < MaxClock
  /\ clock' = clock + 1
  /\ UNCHANGED <<nodes, edges, pc, now, layeringVars, layout, nodeMap, elements, idx,
                 runs, measure, dbVars>>

CallAgain ==
  /\ pc = "done"
  /\ Len(runs) = 1
  /\ pc' = "start"
  /\ now' = 0
  /\ incomingCounts' = EmptyMap
  /\ outgoing' = EmptyMap
  /\ queue' = <<>>
  /\ current' = ""
  /\ level' = EmptyMap
  /\ layout' = EmptyMap
  /\ nodeMap' = EmptyMap
  /\ elements' = <<>>
  /\ idx' = 0
  /\ UNCHANGED <<nodes, edges, clock, runs, measure, dbVars>>

\* The caller calls again without the edges that name a missing node.
CallWithoutDangling ==
  /\ pc = "done"
  /\ Len(runs) = 1
  /\ edges' = SelectSeq(edges, LAMBDA e : e.from \in NodeIds(nodes) /\ e.to \in NodeIds(nodes))
  /\ pc' = "start"
  /\ now' = 0
  /\ incomingCounts' = EmptyMap
  /\ outgoing' = EmptyMap
  /\ queue' = <<>>
  /\ current' = ""
  /\ level' = EmptyMap
  /\ layout' = EmptyMap
  /\ nodeMap' = EmptyMap
  /\ elements' = <<>>
  /\ idx' = 0
  /\ UNCHANGED <<nodes, clock, runs, measure, dbVars>>

Swap(s, i, j) == [s EXCEPT ![i] = s[j], ![j] = s[i]]

\* The caller calls again with two nodes or two edges exchanged.
CallPermuted ==
  /\ pc = "done"
  /\ Len(runs) = 1
  /\ \/ \E i, j \in 1..Len(nodes) :
          i < j /\ nodes' = Swap(nodes, i, j) /\ edges' = edges
     \/ \E i, j \in 1..Len(edges) :
          i < j /\ edges' = Swap(edges, i, j) /\ nodes' = nodes
  /\ pc' = "start"
  /\ now' = 0
  /\ incomingCounts' = EmptyMap
  /\ outgoing' = EmptyMap
  /\ queue' = <<>>
  /\ current' = ""
  /\ level' = EmptyMap
  /\ layout' = EmptyMap
  /\ nodeMap' = EmptyMap
  /\ elements' = <<>>
  /\ idx' = 0
  /\ UNCHANGED <<clock, runs, measure, dbVars>>

(***************************************************************************)
(* A stand-alone call measureTextBox(text, fontSize, maxWidth).            *)
(***************************************************************************)
MeasureCall ==
  /\ pc = "idle"
  /\ ~measure.called
  /\ measure' = [measure EXCEPT
                    !.called = TRUE,
                    !.result = MeasureTextBox(measure.text, measure.fontSize,
                                              measure.maxWidth)]
  /\ UNCHANGED <<nodes, edges, pc, clock, now, layeringVars, layout, nodeMap,
                 elements, idx, runs, dbVars>>

(***************************************************************************)
(* The Convex functions over the tables boards and board_docs              *)
(* (src/unnamed/part_002).  Every function runs as one transaction, so     *)
(* each is one action.  The caller is the value getAuthUserId returns.     *)
(***************************************************************************)
Callers == Users \cup {NoUser}

Scenes == {"s1"}

BoardIds == 1..(MaxBoards + 1)

\* initialData of createBoard: { elements: [], appState: {...}, files: {} }
initialData == "empty"

\* The three checks every board function starts with:
\*   if (!userId) throw new Error("Not authenticated");
\*   if (!board) throw new Error("Board not found");
\*   if (board.ownerId !== userId) throw new Error("Forbidden");
AuthorizeNoOwnerCheck(userId, boardId) ==
  IF userId = NoUser THEN "Not authenticated"
  ELSE IF boardId \notin 1..Len(boards) THEN "Board not found"
  ELSE ""

Authorize(userId, boardId) ==
  IF userId = NoUser THEN "Not authenticated"
  ELSE IF boardId \notin 1..Len(boards) THEN "Board not found"
  ELSE IF boards[boardId].ownerId # userId THEN "Forbidden"
  ELSE ""

\* ctx.db.query("board_docs").withIndex("by_board", q => q.eq("boardId", boardId)).first()
\* 0 stands for null.
FirstDoc(boardId) ==
  LET ks == {k \in 1..Len(board_docs) : board_docs[k].boardId = boardId}
  IN IF ks = {} THEN 0 ELSE CHOOSE k \in ks : \A j \in ks : k <= j

\* The expectedVersion a client sends: behind, equal to or ahead of the version
\* stored for the board (0 when the board has no document).
ExpectedVersions(boardId) ==
  LET doc == FirstDoc(boardId)
      stored == IF doc = 0 THEN 0 ELSE board_docs[doc].version
  IN {Max(0, stored - 1), stored, stored + 1}

Reply(op, userId, boardId, expectedVersion, error, value) ==
  [op |-> op, user |-> userId, boardId |-> boardId,
   expectedVersion |-> expectedVersion, error |-> error, value |-> value]

dbFrame == <<nodes, edges, pc, clock, now, layeringVars, layout, nodeMap, elements,
             idx, runs, measure, canvas, userRateState, admitted>>

createBoard ==
  /\ pc = "idle"
  /\ \E userId \in Callers :
       IF userId = NoUser
       THEN /\ reply' = Reply("createBoard", userId, 0, 0, "Not authenticated", NoValue)
            /\ UNCHANGED <<boards, board_docs>>
       ELSE /\ Len(boards) < MaxBoards
            /\ boards' = Append(boards, [title |-> "title", ownerId |-> userId,
                                         createdAt |-> clock, updatedAt |-> clock])
            /\ board_docs' = Append(board_docs,
                                    [boardId |-> Len(boards) + 1, data |-> initialData,
                                     version |-> 1, updatedBy |-> userId,
                                     updatedAt |-> clock])
            /\ reply' = Reply("createBoard", userId, 0, 0, "",
                                [kind |-> "id", id |-> Len(boards) + 1])
  /\ UNCHANGED dbFrame

getBoard ==
  /\ pc = "idle"
  /\ \E userId \in Callers, boardId \in BoardIds :
       LET error == Authorize(userId, boardId)
       IN reply' = Reply("getBoard", userId, boardId, 0, error,
                           IF error # "" THEN NoValue
                           ELSE [kind |-> "board", board |-> boards[boardId]])
  /\ UNCHANGED <<boards, board_docs>>
  /\ UNCHANGED dbFrame

getScene ==
  /\ pc = "idle"
  /\ \E userId \in Callers, boardId \in BoardIds :
       LET error == Authorize(userId, boardId)
           doc == FirstDoc(boardId)
       IN reply' = Reply("getScene", userId, boardId, 0, error,
                           IF error # "" THEN NoValue
                           ELSE IF doc = 0 THEN [kind |-> "null"]
                           ELSE [kind |-> "scene", data |-> board_docs[doc].data,
                                 version |-> board_docs[doc].version])
  /\ UNCHANGED <<boards, board_docs>>
  /\ UNCHANGED dbFrame

\* Mutant of Behind: no client counts as behind.
BehindNever(expectedVersion, doc) == FALSE

\* if (expectedVersion < doc.version): the client is behind.
Behind(expectedVersion, doc) == expectedVersion < doc.version

\* const newVersion = doc.version + 1;
NewVersionKept(doc) == doc.version

NewVersion(doc) == doc.version + 1

\* The handler of saveScene for one call.
SaveSceneCall(userId, boardId, expectedVersion, data) ==
  LET error == Authorize(userId, boardId)
      doc == FirstDoc(boardId)
      Replied(value) ==
        Reply("saveScene", userId, boardId, expectedVersion, error, value)
  IN IF error # ""
     THEN /\ reply' = Replied(NoValue)
          /\ UNCHANGED <<boards, board_docs>>
     ELSE IF doc = 0
     THEN /\ board_docs' = Append(board_docs,
                                  [boardId |-> boardId, data |-> data,
                                   version |-> 1, updatedBy |-> userId,
                                   updatedAt |-> clock])
          /\ boards' = [boards EXCEPT ![boardId].updatedAt = clock]
          /\ reply' = Replied([kind |-> "version", version |-> 1])
     ELSE IF Behind(expectedVersion, board_docs[doc])
     THEN /\ reply' = Replied([kind |-> "version",
                               version |-> board_docs[doc].version])
          /\ UNCHANGED <<boards, board_docs>>
     ELSE /\ board_docs' = [board_docs EXCEPT
                              ![doc].data = data,
                              ![doc].version = NewVersion(board_docs[doc]),
                              ![doc].updatedBy = userId,
                              ![doc].updatedAt = clock]
          /\ boards' = [boards EXCEPT ![boardId].updatedAt = clock]
          /\ reply' = Replied([kind |-> "version",
                               version |-> NewVersion(board_docs[doc])])

saveScene ==
  /\ pc = "idle"
  /\ \E userId \in Callers, boardId \in BoardIds, data \in Scenes :
     \E expectedVersion \in ExpectedVersions(boardId) :
       /\ ( /\ Authorize(userId, boardId) = ""
            /\ FirstDoc(boardId) # 0
            /\ ~Behind(expectedVersion, board_docs[FirstDoc(boardId)]) )
            => board_docs[FirstDoc(boardId)].version < MaxVersion
       /\ SaveSceneCall(userId, boardId, expectedVersion, data)
  /\ UNCHANGED dbFrame

\* Time passes between two function calls.
Advance ==
  /\ pc = "idle"
  /\ clock < MaxClock
  /\ clock' = clock + 1
  /\ UNCHANGED <<nodes, edges, pc, now, layeringVars, layout, nodeMap, elements, idx,
                 runs, measure, dbVars>>

(***************************************************************************)
(* ExcalidrawCanvas (src/components/ExcalidrawCanvas.tsx, lines 22-59):    *)
(* each mounted component holds lastServerVersionRef and savedState, its   *)
(* saveScene requests in flight (in the order sent) and the reset timers   *)
(* it has started.  The server serves a client's requests in the order     *)
(* sent; latencies are arbitrary, so any interleaving of sends, serves,    *)
(* responses and timers that keeps these orders can happen.                *)
(***************************************************************************)
Clients == 1..2

TheBoard == 1

Digits == <<"1", "2", "3", "4">>

\* The scene client c submits with its n-th change.
SceneOf(c, n) == "c" \o Digits[c] \o "-" \o Digits[n]

Client(c) == canvas.clients[c]

WithClient(c, r) == [canvas EXCEPT !.clients[c] = r]

canvasFrame == <<nodes, edges, pc, clock, now, layeringVars, layout, nodeMap, elements,
                 idx, runs, measure, userRateState, admitted>>

\* useEffect on [scene], lines 35-39.
SceneArrives(c) ==
  /\ pc = "idle"
  /\ FirstDoc(TheBoard) # 0
  /\ board_docs[FirstDoc(TheBoard)].version > Client(c).lastServerVersion
  /\ canvas' = WithClient(c, [Client(c) EXCEPT
                                !.lastServerVersion = board_docs[FirstDoc(TheBoard)].version])
  /\ UNCHANGED <<boards, board_docs, reply>>
  /\ UNCHANGED canvasFrame

\* onChange -> throttledSave(data), up to the await: lines 44-50.
Change(c) ==
  /\ pc = "idle"
  /\ Client(1).changes + Client(2).changes < MaxSaves
  /\ canvas' = WithClient(c, [Client(c) EXCEPT
                                !.savedState = "saving",
                                !.changes = @ + 1,
                                !.inflight = Append(@, [expectedVersion |-> Client(c).lastServerVersion,
                                                        data |-> SceneOf(c, Client(c).changes + 1),
                                                        result |-> 0])])
  /\ UNCHANGED <<boards, board_docs, reply>>
  /\ UNCHANGED canvasFrame

\* The oldest request of c that the server has not served yet (0: none).
Unserved(c) ==
  LET ks == {k \in 1..Len(Client(c).inflight) : Client(c).inflight[k].result = 0}
  IN  IF ks = {} THEN 0 ELSE CHOOSE k \in ks : \A j \in ks : k <= j

\* The server runs saveScene for a request of c; the session is the board
\* owner's, or has expired.  A result of -1 stands for the thrown error.
Serve(c) ==
  /\ pc = "idle"
  /\ Unserved(c) # 0
  /\ \E userId \in {boards[TheBoard].ownerId, NoUser} :
       LET k == Unserved(c)
           r == Client(c).inflight[k]
       IN  /\ SaveSceneCall(userId, TheBoard, r.expectedVersion, r.data)
           /\ canvas' = [canvas EXCEPT
                           !.clients[c].inflight[k].result =
                              IF reply'.error # "" THEN -1 ELSE reply'.value.version,
                           !.executed = Append(@, r.data)]
  /\ UNCHANGED canvasFrame

\* The await returns or throws: lines 51-56.
Settle(c) ==
  /\ pc = "idle"
  /\ Client(c).inflight # <<>>
  /\ Head(Client(c).inflight).result # 0
  /\ LET r == Head(Client(c).inflight)
     IN  canvas' = WithClient(c,
           IF r.result = -1
           THEN [Client(c) EXCEPT !.inflight = Tail(@), !.savedState = "idle"]
           ELSE [Client(c) EXCEPT !.inflight = Tail(@),
                                  !.lastServerVersion = r.result,
                                  !.savedState = "saved",
                                  !.saved = r.data,
                                  !.timers = @ + 1])
  /\ UNCHANGED <<boards, board_docs, reply>>
  /\ UNCHANGED canvasFrame

\* setTimeout(() => setSavedState("idle"), 800) fires: line 53.
TimerFires(c) ==
  /\ pc = "idle"
  /\ Client(c).timers > 0
  /\ canvas' = WithClient(c, [Client(c) EXCEPT !.timers = @ - 1, !.savedState = "idle"])
  /\ UNCHANGED <<boards, board_docs, reply>>
  /\ UNCHANGED canvasFrame

SceneArrivesAny == \E c \in Clients : SceneArrives(c)

ChangeAny == \E c \in Clients : Change(c)

ServeAny == \E c \in Clients : Serve(c)

SettleAny == \E c \in Clients : Settle(c)

TimerFiresAny == \E c \in Clients : TimerFires(c)

(***************************************************************************)
(* The in-memory rate limiter of generateDiagram (src/unnamed/part_004,    *)
(* lines 53-77).  clock is Date.now() in milliseconds; it moves in steps   *)
(* of just over half a window, so that two steps leave a window and one    *)
(* step stays within 60 seconds.                                           *)
(***************************************************************************)
TickMs == userRateWindowMs \div 2 + 1

rateFrame == <<nodes, edges, pc, now, layeringVars, layout, nodeMap, elements, idx, runs,
               measure, boards, board_docs, reply, canvas>>

\* if (!state || now - state.windowStart > userRateWindowMs), line 61.
WindowOver(userId) ==
  \/ userRateState[userId].count = 0
  \/ clock - userRateState[userId].windowStart > userRateWindowMs

\* The call of the user at the present time returned.
Admit(userId) ==
  IF userId \in DOMAIN admitted
  THEN admitted' = [admitted EXCEPT ![userId] = Append(@, clock)]
  ELSE UNCHANGED admitted

\* The users whose calls are not recorded make at most MaxOthers calls in a
\* window.
MayCall(userId) ==
  \/ userId \in DOMAIN admitted
  \/ WindowOver(userId)
  \/ userRateState[userId].count < MaxOthers

\* checkRateLimit(userId), lines 58-69; a call that throws changes nothing.
checkRateLimit ==
  /\ pc = "idle"
  /\ \E userId \in Users :
       /\ MayCall(userId)
       /\ IF WindowOver(userId)
          THEN /\ userRateState' =
                    [userRateState EXCEPT ![userId] = [windowStart |-> clock, count |-> 1]]
               /\ Admit(userId)
          ELSE IF userRateState[userId].count >= userRateMax
          THEN UNCHANGED <<userRateState, admitted>>
          ELSE /\ userRateState' = [userRateState EXCEPT ![userId].count = @ + 1]
               /\ Admit(userId)
  /\ UNCHANGED clock
  /\ UNCHANGED rateFrame

\* Time passes between two calls.
Wait ==
  /\ pc = "idle"
  /\ clock < MaxTicks * TickMs
  /\ clock' = clock + TickMs
  /\ UNCHANGED <<userRateState, admitted>>
  /\ UNCHANGED rateFrame

NextRate == checkRateLimit \/ Wait

SpecRate == InitRate /\ [][NextRate]_vars

Next == Start \/ Shift \/ Relax \/ FinishLayout \/ EmitNode \/ EmitEdge \/ Return

NextTwice == Next \/ Tick \/ CallAgain

\* The while loop is ordinary sequential code: a step that can be taken is taken.
FairSpec == Init /\ [][Next]_vars /\ WF_vars(Next)

SpecGeom == InitGeom /\ [][Next]_vars

SpecTwice == InitTwice /\ [][NextTwice]_vars

NextDb == createBoard \/ getBoard \/ getScene \/ saveScene \/ Advance

SpecDb == InitDb /\ [][NextDb]_vars

NextPerm == Next \/ CallPermuted

SpecPerm == InitPerm /\ [][NextPerm]_vars

SpecWide == InitWide /\ [][Next]_vars

NextDangling == Next \/ CallWithoutDangling

SpecDangling == InitDangling /\ [][NextDangling]_vars

NextCanvas == SceneArrivesAny \/ ChangeAny \/ ServeAny \/ SettleAny \/ TimerFiresAny

SpecCanvas == InitCanvas /\ [][NextCanvas]_vars

SpecMeasure == InitMeasure /\ [][MeasureCall]_vars

Spec == Init /\ [][Next]_vars

(***************************************************************************)
(* Properties.                                                             *)
(***************************************************************************)
Returned == pc = "done"

LaidOut == pc \in {"nodes", "edges", "return", "done"}

\* The nodes reachable from the set S along the edges es (S included).
RECURSIVE ReachSet(_, _)
ReachSet(es, S) ==
  LET T == S \cup {es[k].to : k \in {j \in 1..Len(es) : es[j].from \in S}}
  IN  IF T = S THEN S ELSE ReachSet(es, T)

\* The edge e lies on a cycle of the edges es: its source is reachable from its target.
OnCycle(es, e) == e.from \in ReachSet(es, {e.to})

\* C1: computeLayeredLayout, and with it toExcalidrawElements, terminates on
\* every finite input, cyclic ones included: every call eventually returns.
C1_Terminates == <>Returned

\* C2: for every edge u->v with both endpoints in the node list and on no
\* cycle, the layers computed satisfy layer(v) >= layer(u) + 1.
C2_LayerOrder ==
  Returned =>
    \A k \in 1..Len(edges) :
      LET e == edges[k]
      IN  (BothEndpointsPresent(NodeIds(nodes), e) /\ ~OnCycle(KeptEdges(nodes, edges), e))
            => level[e.to] >= level[e.from] + 1

\* C3: in the returned list every primitive has a non-empty id and no two
\* primitives have the same id (node ids being distinct and non-empty).
C3_UniqueIds ==
  Returned =>
    /\ \A k \in 1..Len(elements) : elements[k].id # ""
    /\ \A j, k \in 1..Len(elements) : j # k => elements[j].id # elements[k].id

\* C4: two distinct nodes of the same layer have disjoint horizontal spans;
\* the later one starts at least H_GAP to the right of the end of the earlier.
C4_RowNoOverlap ==
  LaidOut =>
    \A a, b \in DOMAIN layout :
      (a # b /\ level[a] = level[b])
        => \/ layout[a].x + layout[a].w + Px(H_GAP) <= layout[b].x
           \/ layout[b].x + layout[b].w + Px(H_GAP) <= layout[a].x

C4_Witness ==
  /\ Returned
  /\ \E a, b \in DOMAIN layout :
       /\ a # b
       /\ level[a] = level[b]
       /\ layout[a].w # layout[b].w
       /\ layout[a].x < layout[b].x

ArrowId(e) == e.from \o "->" \o e.to

Arrows == {k \in 1..Len(elements) : elements[k].type = "arrow"}

\* C5: exactly one arrow for each edge whose endpoints are both node ids, and
\* no primitive (arrow or label) for an edge with a missing endpoint; the
\* number of arrows is the number of edges with both endpoints present.
C5_EdgeValidity ==
  Returned =>
    /\ Cardinality(Arrows) = Len(KeptEdges(nodes, edges))
    /\ \A k \in 1..Len(edges) :
         IF edges[k].from \in NodeIds(nodes) /\ edges[k].to \in NodeIds(nodes)
         THEN \E j \in Arrows : elements[j].id = ArrowId(edges[k])
         ELSE \A j \in 1..Len(elements) :
                elements[j].id \notin {ArrowId(edges[k]), ArrowId(edges[k]) \o "-label"}

C5_Witness ==
  /\ Returned
  /\ Cardinality(Arrows) >= 2
  /\ \E k \in 1..Len(edges) : edges[k].to \notin NodeIds(nodes)
  /\ \E k \in 1..Len(edges) : edges[k].from = edges[k].to /\ edges[k].to \in NodeIds(nodes)

InEnvelope(v) == Px(MIN_COORD) <= v /\ v <= Px(MAX_COORD)

\* C6: every primitive of the returned list has x and y within [-5000, 5000].
C6_Containment ==
  Returned => \A k \in 1..Len(elements) : InEnvelope(elements[k].x) /\ InEnvelope(elements[k].y)

\* A node laid out beyond the envelope, and its primitive on the border.
ClampedX ==
  \E k \in 1..Len(elements) :
    /\ Has(layout, elements[k].id)
    /\ layout[elements[k].id].x > Px(MAX_COORD)
    /\ elements[k].x = Px(MAX_COORD)

ClampedY ==
  \E k \in 1..Len(elements) :
    /\ Has(layout, elements[k].id)
    /\ layout[elements[k].id].y > Px(MAX_COORD)
    /\ elements[k].y = Px(MAX_COORD)

C6_Witness == Returned /\ ClampedX

\* The label ids the code derives: `${n.id}-label` and `${e.from}->${e.to}-label`.
LabelIds ==
  {nodes[k].id \o "-label" : k \in 1..Len(nodes)}
    \cup {ArrowId(edges[k]) \o "-label" : k \in 1..Len(edges)}

\* C7: every label text primitive occurs at a later index than the shape or
\* arrow primitive it was generated for.
C7_LabelAfterOwner ==
  \A k \in 1..Len(elements) :
    (elements[k].type = "text" /\ elements[k].id \in LabelIds)
      => \E j \in 1..(k - 1) :
           /\ elements[j].type # "text"
           /\ elements[j].id \o "-label" = elements[k].id

C7_Witness ==
  /\ Returned
  /\ \E k \in 1..Len(elements) : elements[k].id = "A-label"
  /\ \E k \in 1..Len(elements) : elements[k].id = "A->B-label"

RECURSIVE WordsWidth(_, _)
WordsWidth(words, fontSize) ==
  IF words = <<>> THEN 0
  ELSE (Len(Head(words)) + 1) * fontSize * 12 + WordsWidth(Tail(words), fontSize)

TooWide(text, fontSize, maxWidth) ==
  WordsWidth(Split(text), fontSize) > maxWidth - 2 * Px(TEXT_PADDING)

\* C9: measureTextBox never returns a width above maxWidth, and a text whose
\* words do not fit on one line gets more than one line and a height strictly
\* above that of a one-line text of the same font size.
C9_MeasureBounds ==
  measure.called =>
    /\ measure.result.width <= measure.maxWidth
    /\ TooWide(measure.text, measure.fontSize, measure.maxWidth)
         => /\ measure.result.lines > 1
            /\ measure.result.height > Round(measure.fontSize * 24) + Px(TEXT_PADDING)

C9_Witness ==
  /\ measure.called
  /\ measure.maxWidth >= Px(64)
  /\ TooWide(measure.text, measure.fontSize, measure.maxWidth)
  /\ measure.result.lines = 2
  /\ Len(Split(measure.text)) >= 2

\* C10: with an empty node list the call returns an empty primitive list,
\* whatever the edge list contains (no primitive is ever pushed).
C10_EmptyNodes == nodes = <<>> => elements = <<>>

C10_Witness == Returned /\ nodes = <<>> /\ Len(edges) = MaxEdges /\ elements = <<>>

(***************************************************************************)
(* Properties of the board functions.                                      *)
(***************************************************************************)
Wrote(k) == board_docs'[k] # board_docs[k]

\* C11: over any sequence of createBoard and saveScene calls the version
\* stored in a board's document never decreases, and every saveScene call
\* that writes its data into an existing document increases the stored
\* version by exactly 1 and returns that new version.
C11_VersionBump ==
  [][\A k \in 1..Len(board_docs) :
       /\ k <= Len(board_docs')
       /\ board_docs'[k].boardId = board_docs[k].boardId
       /\ board_docs'[k].version >= board_docs[k].version
       /\ Wrote(k) =>
            /\ reply'.op = "saveScene"
            /\ board_docs'[k].version = board_docs[k].version + 1
            /\ reply'.value = [kind |-> "version", version |-> board_docs'[k].version]]_vars

\* A second write of one document has just returned version 3.
C11_Witness ==
  /\ reply.op = "saveScene"
  /\ reply.error = ""
  /\ reply.expectedVersion >= 2
  /\ reply.value = [kind |-> "version", version |-> 3]
  /\ \E k \in 1..Len(board_docs) :
       board_docs[k].boardId = reply.boardId /\ board_docs[k].version = 3

BoardFunctions == {"getBoard", "getScene", "saveScene"}

BeforeClamp == pc = "return"

\* C13: before clamping, the absolute start point (x + points[0]) of the arrow
\* of an edge u->v is the centre of u's position box and its absolute end
\* point (x + points[1]) is the centre of v's, wherever v lies relative to u.
C13_ArrowJoinsCenters ==
  BeforeClamp =>
    \A j \in 1..Len(edges) : \A k \in Arrows :
      (Resolved(nodeMap, edges[j]) /\ elements[k].id = ArrowId(edges[j])) =>
        LET a == elements[k]
            c1 == CenterOf(nodeMap[edges[j].from])
            c2 == CenterOf(nodeMap[edges[j].to])
        IN  /\ a.x + a.points[1][1] = c1.cx
            /\ a.y + a.points[1][2] = c1.cy
            /\ a.x + a.points[2][1] = c2.cx
            /\ a.y + a.points[2][2] = c2.cy

\* The primitives of elements emitted for node n itself (not its label).
PrimitivesOf(n) == {k \in 1..Len(elements) : elements[k].id = n.id}

NodesDone == pc \in {"edges", "return", "done"}

\* C14: the shape primitive of a non-text node with hints (w, h) has the
\* scaled box size of the layout: width = max(160, round(1.6 w)) and
\* height = max(64, round(1.6 h)), the width and height of the node's entry
\* in the layout position map.
C14_ShapeHasLayoutSize ==
  NodesDone =>
    \A j \in 1..Len(nodes) : \A k \in PrimitivesOf(nodes[j]) :
      nodes[j].type # "text" =>
        /\ elements[k].width = Max(Px(MIN_SHAPE_WIDTH), Round(TimesShapeScale(Px(nodes[j].w))))
        /\ elements[k].height = Max(Px(MIN_SHAPE_HEIGHT), Round(TimesShapeScale(Px(nodes[j].h))))
        /\ elements[k].width = layout[nodes[j].id].w
        /\ elements[k].height = layout[nodes[j].id].h

Shapes ==
  {k \in 1..Len(elements) :
     \E j \in 1..Len(nodes) : nodes[j].type # "text" /\ elements[k].id = nodes[j].id}

Intersect(a, b) ==
  /\ a.x < b.x + b.width
  /\ b.x < a.x + a.width
  /\ a.y < b.y + b.height
  /\ b.y < a.y + a.height

ClampingChangesNothing == ClampElements(elements) = elements

\* C15: on inputs on which clamping changes nothing, the bounding boxes
\* (x, y, width, height) of the shape primitives of two distinct non-text
\* nodes never intersect, within a row or between consecutive rows.
C15_ShapesDisjoint ==
  (BeforeClamp /\ ClampingChangesNothing) =>
    \A k1, k2 \in Shapes :
      elements[k1].id # elements[k2].id => ~Intersect(elements[k1], elements[k2])

\* C16: for a text-kind node the maximum width passed to the text metrics
\* estimator lies between the minimum shape width (160) and the maximum text
\* width (360), so the stand-alone text primitive is never wider than 360.
C16_TextWidthCapped ==
  NodesDone =>
    \A j \in 1..Len(nodes) : \A k \in PrimitivesOf(nodes[j]) :
      nodes[j].type = "text" =>
        /\ TextMaxWidth(nodeMap[nodes[j].id]) >= Px(MIN_SHAPE_WIDTH)
        /\ TextMaxWidth(nodeMap[nodes[j].id]) <= Px(MAX_TEXT_WIDTH)
        /\ elements[k].width <= Px(MAX_TEXT_WIDTH)

\* C17: the core never reads the process clock: two calls of
\* toExcalidrawElements with identical arguments return identical primitive
\* lists even when the wall-clock time differs between the calls.
C17_ClockIndependent ==
  (Len(runs) = 2 /\ runs[1].nodes = runs[2].nodes /\ runs[1].edges = runs[2].edges)
    => runs[1].elements = runs[2].elements

(***************************************************************************)
(* Properties of a call on a reordered input.                              *)
(***************************************************************************)
Elems(s) == {s[k] : k \in 1..Len(s)}

Reordered(s, t) == Len(s) = Len(t) /\ Elems(s) = Elems(t)

Acyclic(es) == \A k \in 1..Len(es) : ~OnCycle(es, es[k])

EndpointsPresent(ns, es) == Len(KeptEdges(ns, es)) = Len(es)

\* C18: for acyclic input with all edge endpoints present, the layer of each
\* node does not depend on the order of the node list or of the edge list:
\* a reordering of either list yields the same layer for every node.
C18_OrderIndependent ==
  ( /\ Len(runs) = 2
    /\ Reordered(runs[1].nodes, runs[2].nodes)
    /\ Reordered(runs[1].edges, runs[2].edges)
    /\ Acyclic(runs[1].edges)
    /\ EndpointsPresent(runs[1].nodes, runs[1].edges) )
    => runs[1].level = runs[2].level

(***************************************************************************)
(* Properties of the clamped output on rows that reach the envelope.       *)
(***************************************************************************)
WithinCaps(ns) ==
  /\ Len(ns) <= MAX_DIAGRAM_NODES
  /\ \A k \in 1..Len(ns) : ns[k].w <= MAX_W /\ ns[k].h <= MAX_H

\* C19: in the clamped output, for node lists within the input caps (at most
\* 30 nodes, hints at most 2000), two distinct nodes of the same layer never
\* have the same x: clamping does not collapse nodes onto one position.
C19_NoCollapse ==
  (Returned /\ WithinCaps(nodes)) =>
    \A i, j \in 1..Len(nodes) :
      (i # j /\ level[nodes[i].id] = level[nodes[j].id]) =>
        \A k1 \in PrimitivesOf(nodes[i]), k2 \in PrimitivesOf(nodes[j]) :
          elements[k1].x # elements[k2].x

\* C20: in the position map of computeLayeredLayout layers are stacked top to
\* bottom: for nodes a and b with layer(a) < layer(b),
\* y_b >= y_a + h_a + 160 (the vertical gap).
C20_LayersStacked ==
  LaidOut =>
    \A a, b \in DOMAIN layout :
      level[a] < level[b] => layout[b].y >= layout[a].y + layout[a].h + Px(V_GAP)

\* Three layers, and in the top one a node that is centred on a half pixel
\* beside a taller one.
C20_Witness ==
  /\ LaidOut
  /\ \E a, b, c \in DOMAIN layout :
       /\ level[a] + 2 = level[b]
       /\ level[c] = level[a]
       /\ layout[c].h > layout[a].h
       /\ (layout[c].h - layout[a].h) % Px(2) # 0

(***************************************************************************)
(* Further properties of the layout and of the node loop.                  *)
(***************************************************************************)
PositionInList(ns, id) == CHOOSE k \in 1..Len(ns) : ns[k].id = id

\* C21: within one layer the nodes are placed left to right in ascending
\* order of their identifier strings: for a, b of the same layer,
\* id_a < id_b implies x_a < x_b, whatever their order in the input list.
C21_RowSortedById ==
  LaidOut =>
    \A a, b \in DOMAIN layout :
      (level[a] = level[b] /\ StringLess(a, b)) => layout[a].x < layout[b].x

\* Two nodes of one layer that the input lists in descending order of id.
C21_Witness ==
  /\ LaidOut
  /\ \E a, b \in DOMAIN layout :
       /\ level[a] = level[b]
       /\ StringLess(a, b)
       /\ PositionInList(nodes, b) < PositionInList(nodes, a)
       /\ layout[a].x < layout[b].x

LabelsOf(n) == {k \in 1..Len(elements) : elements[k].id = n.id \o "-label"}

\* C22: per node, a text-kind node yields exactly one text primitive with the
\* node's id and no shape; any other node yields exactly one shape primitive
\* with the node's id and type, plus exactly one label text primitive if and
\* only if the node's text is present and non-empty.
C22_PrimitivesPerNode ==
  NodesDone =>
    \A j \in 1..Len(nodes) :
      LET n == nodes[j]
          hasText == n.text # Undefined /\ n.text # <<>>
      IN  /\ Cardinality(PrimitivesOf(n)) = 1
          /\ \A k \in PrimitivesOf(n) : elements[k].type = n.type
          /\ \A k \in LabelsOf(n) : elements[k].type = "text"
          /\ Cardinality(LabelsOf(n)) = IF n.type # "text" /\ hasText THEN 1 ELSE 0

\* A text-kind node with text, a labelled shape and a shape whose text is empty.
C22_Witness ==
  /\ NodesDone
  /\ \E i, j, k \in 1..Len(nodes) :
       /\ nodes[i].type = "text" /\ nodes[i].text # Undefined /\ nodes[i].text # <<>>
       /\ nodes[j].type # "text" /\ LabelsOf(nodes[j]) # {}
       /\ nodes[k].type # "text" /\ nodes[k].text = <<>>
  /\ \E k \in 1..Len(nodes) : nodes[k].type # "text" /\ nodes[k].text = Undefined

(***************************************************************************)
(* Properties of a call on an edge list with and without dangling edges.   *)
(***************************************************************************)
Dangling(ns, e) == e.from \notin NodeIds(ns) \/ e.to \notin NodeIds(ns)

WithoutDangling(ns, es) == SelectSeq(es, LAMBDA e : ~Dangling(ns, e))

\* C23: edges that reference a node id absent from the node list have no
\* influence on the layout: computeLayeredLayout returns the same position
\* for every node with and without such edges in the edge list.
C23_DanglingIgnored ==
  ( /\ Len(runs) = 2
    /\ runs[2].nodes = runs[1].nodes
    /\ runs[2].edges = WithoutDangling(runs[1].nodes, runs[1].edges) )
    => runs[2].layout = runs[1].layout

\* The first call had an edge from the missing node into a chain of three.
C23_Witness ==
  /\ Len(runs) = 2
  /\ Len(runs[2].edges) = 2
  /\ \E k \in 1..Len(runs[1].edges) :
       /\ runs[1].edges[k].from \notin NodeIds(runs[1].nodes)
       /\ runs[1].edges[k].to \in NodeIds(runs[1].nodes)
  /\ \E a \in DOMAIN runs[2].level : runs[2].level[a] = 2

(***************************************************************************)
(* The frame of clampElements.                                             *)
(***************************************************************************)
SameButXY(a, b) == [a EXCEPT !.x = b.x, !.y = b.y] = b

\* C24: clampElements returns a list of the same length and order in which
\* every element equals the input element in every field except x and y
\* (width, height, points and all other fields are unchanged), and the call
\* completes.
C24_ClampFrame ==
  [][pc = "return" =>
       /\ pc' = "done"
       /\ Len(elements') = Len(elements)
       /\ \A k \in 1..Len(elements) : SameButXY(elements'[k], elements[k])]_vars

\* clampElements has moved a primitive that is itself wider than the envelope,
\* in a list that also holds an arrow.
C24_Witness ==
  /\ Returned
  /\ ClampedY
  /\ \E k \in 1..Len(elements) : elements[k].width > Px(MAX_COORD)
  /\ Arrows # {}

(***************************************************************************)
(* The reference text estimator: the words of a text are its maximal runs  *)
(* of non-blank characters.                                                *)
(***************************************************************************)
RECURSIVE WordsFrom(_, _)
WordsFrom(t, cur) ==
  LET done == IF cur = <<>> THEN <<>> ELSE <<cur>>
  IN  IF t = <<>> THEN done
      ELSE IF Head(t) = " " THEN done \o WordsFrom(Tail(t), <<>>)
      ELSE WordsFrom(Tail(t), Append(cur, Head(t)))

Words(t) == WordsFrom(t, <<>>)

\* Running line width and line count after the first k words.
RECURSIVE Lines(_, _, _, _)
Lines(ws, k, fontSize, maxWidth) ==
  IF k = 0 THEN [lineWidth |-> 0, lines |-> 1]
  ELSE LET before == Lines(ws, k - 1, fontSize, maxWidth)
           w == (Len(ws[k]) + 1) * 12 * fontSize
       IN  IF before.lineWidth + w > maxWidth - Px(24)
           THEN [lineWidth |-> w, lines |-> before.lines + 1]
           ELSE [lineWidth |-> before.lineWidth + w, lines |-> before.lines]

Reference(text, fontSize, maxWidth) ==
  LET last == Lines(Words(text), Len(Words(text)), fontSize, maxWidth)
  IN  [width |-> Min(Max(last.lineWidth + Px(24), Min(Px(360), maxWidth)), maxWidth),
       height |-> last.lines * Round(24 * fontSize) + Px(12),
       lines |-> last.lines]

\* C25: measureTextBox(text, fontSize, maxWidth) equals the reference
\* estimator: each whitespace-delimited word has width
\* (length + 1) * 0.6 * fontSize, a new line starts exactly when the running
\* line width plus the next word exceeds maxWidth - 24,
\* height = lines * round(1.2 * fontSize) + 12 and
\* width = min(max(lastLineWidth + 24, min(360, maxWidth)), maxWidth).
C25_EqualsReference ==
  measure.called =>
    LET ref == Reference(measure.text, measure.fontSize, measure.maxWidth)
    IN  /\ measure.result.width = ref.width
        /\ measure.result.height = ref.height
        /\ measure.result.lines = ref.lines

\* C26: the line count returned by measureTextBox never exceeds the number of
\* whitespace-delimited words of the text; a text of a single word is
\* estimated as exactly one line, however long the word is.
C26_LinesAtMostWords ==
  measure.called =>
    /\ Words(measure.text) # <<>> => measure.result.lines <= Len(Words(measure.text))
    /\ Len(Words(measure.text)) = 1 => measure.result.lines = 1

(***************************************************************************)
(* Further properties of the board functions.                              *)
(***************************************************************************)
StoredVersion(boardId) == board_docs[FirstDoc(boardId)].version

\* C27: a saveScene call whose expectedVersion is lower than the version of
\* the existing board document is ignored: the document's data, version,
\* updatedBy and updatedAt and the board's updatedAt stay unchanged, no error
\* is raised, and the call returns the current stored version.
C27_StaleSaveIgnored ==
  [][( /\ reply'.op = "saveScene"
       /\ Authorize(reply'.user, reply'.boardId) = ""
       /\ FirstDoc(reply'.boardId) # 0
       /\ reply'.expectedVersion < StoredVersion(reply'.boardId) )
     => /\ UNCHANGED <<boards, board_docs>>
        /\ reply'.error = ""
        /\ reply'.value = [kind |-> "version", version |-> StoredVersion(reply'.boardId)]]_vars

\* The owner's save with a version behind the stored one has just returned,
\* later than the last write of the document.
C27_Witness ==
  /\ reply.op = "saveScene"
  /\ reply.error = ""
  /\ FirstDoc(reply.boardId) # 0
  /\ reply.expectedVersion < StoredVersion(reply.boardId)
  /\ reply.value = [kind |-> "version", version |-> StoredVersion(reply.boardId)]
  /\ board_docs[FirstDoc(reply.boardId)].updatedAt < clock

\* The calls the server ran at or after the call that submitted scene d.
FromCall(d) ==
  LET ks == {k \in 1..Len(canvas.executed) : canvas.executed[k] = d}
  IN  {canvas.executed[j] : j \in {j \in 1..Len(canvas.executed) : \A k \in ks : k <= j}}

BothEditing == \A c \in Clients : Client(c).changes > 0

\* C28: with two clients editing the same board, whenever a client shows
\* "Saved" after a save that completed without error, the board document
\* holds the scene submitted by that call or by a call the server ran later.
C28_SavedIsStored ==
  BothEditing =>
    \A c \in Clients :
      Client(c).savedState = "saved" =>
        board_docs[FirstDoc(TheBoard)].data \in FromCall(Client(c).saved)

\* C29: while a saveScene request of a client is in flight, its savedState
\* is "saving".
C29_SavingWhileInFlight ==
  \A c \in Clients : Client(c).inflight # <<>> => Client(c).savedState = "saving"

\* The number of calls of the user admitted in the 60 seconds from start.
AdmittedIn(userId, start) ==
  Cardinality({k \in 1..Len(admitted[userId]) :
                 /\ start <= admitted[userId][k]
                 /\ admitted[userId][k] < start + userRateWindowMs})

\* C30: for every user and every interval of 60 seconds, at most userRateMax
\* calls of checkRateLimit made in the interval return without throwing.
C30_AtMostMaxPerMinute ==
  \A userId \in DOMAIN admitted :
    \A start \in {admitted[userId][k] : k \in 1..Len(admitted[userId])} :
      AdmittedIn(userId, start) <= userRateMax

=============================================================================
